---- MODULE Spec2Model ----
(***************************************************************************)
(* Model of the Humanizer API: the serverless handler of api/index.py, its *)
(* Netlify wrapper (netlify/functions/api.py) and the remote steps of      *)
(* api_external.py (paraphrase_text, rewrite_text, detect_ai_text,         *)
(* is_ai_generated) that the handler drives.                               *)
(*                                                                         *)
(* A Python str is a sequence of one-character strings; the em dash        *)
(* (U+2014) is the element "EMDASH".  A Python value that may or may not   *)
(* be a str is a record [k, s]: k = "str" with the characters in s,        *)
(* k = "none" for None, k = "num" for a non-zero number.                   *)
(* A probability p is the integer p * One, One = 2 * Half.                 *)
(***************************************************************************)
EXTENDS Integers, Sequences, FiniteSets, TLC

(***************************************************************************)
(* Bounds and program constants                                            *)
(***************************************************************************)
\* Resolution of the classifier's scores: a score is k / (2 * Half).
Half == 2
One == 2 * Half
\* Longest text clean_final_text is applied to on its own
CleanMaxLen == 4
\* index.py:283  len(text) < 10
MinTextLen == 10
\* index.py:290  len(text) > 50000
MaxTextLen == 50000
\* body.get("detection_threshold", 0.7), index.py:422; is_ai_generated's default
DefaultThresholdNum == 7
DefaultThresholdDen == 10

EmDash == "EMDASH"

(***************************************************************************)
(* Python values                                                           *)
(***************************************************************************)
Str(s) == [k |-> "str", s |-> s]
None == [k |-> "none", s |-> <<>>]
Num == [k |-> "num", s |-> <<>>]

\* bool(v): None and "" are falsy, a non-zero number and a non-empty str truthy
Truthy(v) == v.k = "num" \/ (v.k = "str" /\ v.s # <<>>)

\* s.startswith(p)
startswith(s, p) == Len(s) >= Len(p) /\ SubSeq(s, 1, Len(p)) = p

\* s.strip(): the only whitespace of the alphabet is " "
strip(s) ==
    LET n == Len(s)
    IN IF \A i \in 1..n : s[i] = " " THEN <<>>
       ELSE LET first == CHOOSE i \in 1..n :
                             s[i] # " " /\ \A j \in 1..(i - 1) : s[j] = " "
                last == CHOOSE i \in 1..n :
                             s[n + 1 - i] # " "
                             /\ \A j \in 1..(i - 1) : s[n + 1 - j] = " "
            IN SubSeq(s, first, n + 1 - last)

\* s.rstrip('/')
RECURSIVE rstrip_slash(_)
rstrip_slash(s) ==
    IF s # <<>> /\ s[Len(s)] = "/" THEN rstrip_slash(SubSeq(s, 1, Len(s) - 1))
    ELSE s

\* s.replace(old, new): every non-overlapping occurrence, left to right
RECURSIVE replace(_, _, _)
replace(s, old, new) ==
    IF s = <<>> THEN <<>>
    ELSE IF startswith(s, old)
         THEN new \o replace(SubSeq(s, Len(old) + 1, Len(s)), old, new)
         ELSE <<Head(s)>> \o replace(Tail(s), old, new)

\* number of leading spaces of s
RECURSIVE LeadingSpaces(_)
LeadingSpaces(s) ==
    IF s # <<>> /\ Head(s) = " " THEN 1 + LeadingSpaces(Tail(s)) ELSE 0

\* re.sub(r' ([,.])', r'\1', s): only the space next to the "," or "." is
\* dropped
RECURSIVE sub_one_space_before_punct(_)
sub_one_space_before_punct(s) ==
    IF s = <<>> THEN <<>>
    ELSE IF Head(s) = " " /\ Len(s) >= 2 /\ s[2] \in {",", "."}
         THEN <<s[2]>> \o sub_one_space_before_punct(SubSeq(s, 3, Len(s)))
         ELSE <<Head(s)>> \o sub_one_space_before_punct(Tail(s))

\* re.sub(r' +([,.])', r'\1', s): a maximal run of spaces directly followed by
\* "," or "." is dropped; every other character is kept
RECURSIVE sub_space_before_punct(_)
sub_space_before_punct(s) ==
    IF s = <<>> THEN <<>>
    ELSE IF Head(s) = " "
         THEN LET n == LeadingSpaces(s)
                  rest == SubSeq(s, n + 1, Len(s))
              IN IF rest # <<>> /\ rest[1] \in {",", "."}
                 THEN sub_space_before_punct(rest)
                 ELSE SubSeq(s, 1, n) \o sub_space_before_punct(rest)
         ELSE <<Head(s)>> \o sub_space_before_punct(Tail(s))

\* clean_str replacing the em dash by "," alone
clean_str_comma_only(s) ==
    IF s = <<>> THEN s
    ELSE sub_space_before_punct(replace(s, <<EmDash>>, <<",">>))

\* clean_final_text on a str
clean_str(s) ==
    IF s = <<>> THEN s
    ELSE sub_space_before_punct(replace(s, <<EmDash>>, <<",", " ">>))

(***************************************************************************)
(* api_external.py: the remote inference client and the steps built on it  *)
(***************************************************************************)
\* What the remote endpoint does with one call: the transport or the HTTP
\* status fails ("raise"), or the JSON body is not a list ("nonlist"), an
\* empty list ("emptylist"), a list whose first element is not an object
\* ("elem"), or a list whose first element is the object v ("dict").
Remote(k, v) == [k |-> k, v |-> v]

\* call_hf_api: [raised, err, result, called]; called tells whether
\* requests.post was reached
call_hf_api(token, remote) ==
    IF ~token
    THEN [raised |-> TRUE, err |-> "HF_API_TOKEN environment variable not set",
          result |-> Remote("raise", None), called |-> FALSE]
    ELSE IF remote.k = "raise"
         THEN [raised |-> TRUE, err |-> "HTTPError", result |-> remote, called |-> TRUE]
         ELSE [raised |-> FALSE, err |-> "", result |-> remote, called |-> TRUE]

\* The body shared by paraphrase_text and rewrite_text once call_hf_api has
\* returned: (generated text or the input, error string).  For the object of a
\* generation call, v.has tells whether the key generated_text is there and
\* v.val is its value.
generated_or_error(text, api) ==
    IF api.raised THEN [out |-> Str(text), err |-> api.err, called |-> api.called]
    ELSE IF api.result.k = "dict"
         THEN [out |-> IF api.result.v.has THEN api.result.v.val ELSE Str(text),
               err |-> "", called |-> api.called]
    ELSE IF api.result.k = "elem"
         \* result[0].get raises AttributeError, caught by the except clause
         THEN [out |-> Str(text), err |-> "AttributeError", called |-> api.called]
         ELSE [out |-> Str(text), err |-> "API returned unexpected format",
               called |-> api.called]

paraphrase_text(text, token, remote) ==
    generated_or_error(text, call_hf_api(token, remote))

rewrite_text(text, enhanced, token, remote) ==
    generated_or_error(text, call_hf_api(token, remote))

DetectorModel == "roberta-base-openai-detector"

\* abs(x)
abs(x) == IF x < 0 THEN 0 - x ELSE x

\* The neutral results of detect_ai_text; error = "" stands for no error key
NeutralDetection(prediction, error) ==
    [ensemble_ai_probability |-> Half, ensemble_human_probability |-> Half,
     prediction |-> prediction, confidence |-> 0, models_used |-> <<>>,
     error |-> error]

\* ScoredDetection with the confidence not doubled
ScoredDetection_undoubled(ai_score) ==
    [ensemble_ai_probability |-> ai_score,
     ensemble_human_probability |-> One - ai_score,
     prediction |-> IF ai_score > Half THEN "AI-generated" ELSE "Human-written",
     confidence |-> abs(ai_score - Half),
     models_used |-> <<DetectorModel>>,
     error |-> ""]

\* The result built from a score (api_external.py:104-110)
ScoredDetection(ai_score) ==
    [ensemble_ai_probability |-> ai_score,
     ensemble_human_probability |-> One - ai_score,
     prediction |-> IF ai_score > Half THEN "AI-generated" ELSE "Human-written",
     confidence |-> abs(ai_score - Half) * 2,
     models_used |-> <<DetectorModel>>,
     error |-> ""]

\* detect_ai_text scoring an empty or non-list response as 0.5 and listing
\* the model
detect_ai_text_zero_filled(token, remote) ==
    LET api == call_hf_api(token, remote)
    IN IF api.raised THEN NeutralDetection("Detection failed", api.err)
       ELSE IF api.result.k \in {"nonlist", "emptylist", "elem"}
            THEN ScoredDetection(Half)
       ELSE LET p == api.result.v
            IN IF p.score.k = "nan"
               THEN NeutralDetection("Detection failed", "TypeError")
               ELSE LET score == IF p.score.k = "missing" THEN Half ELSE p.score.n
                    IN ScoredDetection(IF p.label = "AI" THEN score ELSE One - score)

\* detect_ai_text.  The object of a classification call is
\* [label, score]: score.k is "missing" (no key), "nan" (not a number:
\* null, a string) or "num" with the value score.n in 0..One.
detect_ai_text(token, remote) ==
    LET api == call_hf_api(token, remote)
    IN IF api.raised THEN NeutralDetection("Detection failed", api.err)
       ELSE IF api.result.k \in {"nonlist", "emptylist"}
            THEN NeutralDetection("Uncertain", "")
       ELSE IF api.result.k = "elem" THEN ScoredDetection(Half)
       ELSE LET p == api.result.v
            IN IF p.score.k = "nan"
               \* 1 - score raises TypeError, caught by the except clause
               THEN NeutralDetection("Detection failed", "TypeError")
               ELSE LET score == IF p.score.k = "missing" THEN Half ELSE p.score.n
                    IN ScoredDetection(IF p.label = "AI" THEN score ELSE One - score)

\* ai_prob > threshold, the threshold being the fraction th.n / th.d
above_threshold(ai_prob, th) == ai_prob * th.d > th.n * One

\* is_ai_generated: (ai_prob > threshold, confidence)
is_ai_generated(threshold, token, remote) ==
    LET result == detect_ai_text(token, remote)
    IN [is_ai |-> above_threshold(result.ensemble_ai_probability, threshold),
        confidence |-> result.confidence]

(***************************************************************************)
(* api/index.py: clean_final_text and HumanizerService.humanize_text       *)
(***************************************************************************)
\* clean_final_text on a Python value: a falsy value is returned as it is, a
\* str is cleaned, text.replace on a number raises AttributeError
clean_final_text(v) ==
    IF ~Truthy(v) THEN [raised |-> "", out |-> v]
    ELSE IF v.k = "str" THEN [raised |-> "", out |-> Str(clean_str(v.s))]
    ELSE [raised |-> "AttributeError", out |-> v]

\* get_current_model() of the paraphraser module
get_current_model == "humarin/chatgpt_paraphraser_on_T5_base"

\* stats as humanize_text creates it (index.py:69-75); "None" is None
InitialStats(text, use_enhanced_rewriting) ==
    [original_length |-> Len(text),
     paraphrasing_used |-> FALSE,
     enhanced_rewriting_used |-> use_enhanced_rewriting,
     model_used |-> "None",
     processing_steps |-> <<>>]

add_step(stats, step) ==
    [stats EXCEPT !.processing_steps = Append(@, step)]

\* pipeline_error without the "error" step marker
pipeline_error_unmarked(text, stats, e) ==
    [text |-> Str(text),
     stats |-> [error |-> e] @@ stats]

\* The except clause of humanize_text (index.py:119-125)
pipeline_error(text, stats, e) ==
    [text |-> Str(text),
     stats |-> [error |-> e,
                processing_steps |-> Append(stats.processing_steps, "error")] @@ stats]

\* paraphrase_step without the paraphrased.strip() test: a paraphrase of
\* spaces only is adopted
paraphrase_step_unstripped(stats, current_text, p) ==
    IF p.err # "" \/ ~Truthy(p.out)
    THEN [raised |-> "", current_text |-> current_text,
          stats |-> add_step(stats, "paraphrasing_failed")]
    ELSE IF p.out.k # "str"
         THEN [raised |-> "AttributeError", current_text |-> current_text,
               stats |-> stats]
         ELSE [raised |-> "",
               current_text |-> IF startswith(p.out.s, <<":", " ">>)
                                THEN SubSeq(p.out.s, 3, Len(p.out.s))
                                ELSE p.out.s,
               stats |-> add_step([stats EXCEPT !.paraphrasing_used = TRUE,
                                                !.model_used = get_current_model],
                                  "paraphrasing")]

\* Step 1 after paraphrase_text has returned p (index.py:85-96):
\* [raised, stats, current_text]
paraphrase_step(stats, current_text, p) ==
    IF p.err # "" \/ ~Truthy(p.out)
    THEN [raised |-> "", current_text |-> current_text,
          stats |-> add_step(stats, "paraphrasing_failed")]
    ELSE IF p.out.k # "str"
         \* paraphrased.strip() on a number
         THEN [raised |-> "AttributeError", current_text |-> current_text,
               stats |-> stats]
    ELSE IF strip(p.out.s) = <<>>
         THEN [raised |-> "", current_text |-> current_text,
               stats |-> add_step(stats, "paraphrasing_failed")]
         ELSE [raised |-> "",
               current_text |-> IF startswith(p.out.s, <<":", " ">>)
                                THEN SubSeq(p.out.s, 3, Len(p.out.s))
                                ELSE p.out.s,
               stats |-> add_step([stats EXCEPT !.paraphrasing_used = TRUE,
                                                !.model_used = get_current_model],
                                  "paraphrasing")]

\* rewrite_step without the test of err: a failed rewrite counts as done
rewrite_step_unchecked(stats, current_text, r) ==
    [final_text |-> r.out, stats |-> add_step(stats, "rewriting")]

\* Step 2 after rewrite_text has returned r (index.py:102-107):
\* [final_text, stats]
rewrite_step(stats, current_text, r) ==
    IF r.err # ""
    THEN [final_text |-> Str(current_text),
          stats |-> add_step(stats, "rewriting_failed")]
    ELSE [final_text |-> r.out, stats |-> add_step(stats, "rewriting")]

\* Step 3 and the return (index.py:111-117), the except clause included:
\* [raised, ret, stats], stats being the dict as the try block left it
clean_step(text, stats, final_text) ==
    LET c == clean_final_text(final_text)
        cleaned == add_step(stats, "text_cleaning")
    IN IF c.raised # ""
       THEN [raised |-> c.raised, stats |-> stats,
             ret |-> pipeline_error(text, stats, c.raised)]
       ELSE IF c.out.k # "str"
            \* len(None)
            THEN [raised |-> "TypeError", stats |-> cleaned,
                  ret |-> pipeline_error(text, cleaned, "TypeError")]
            ELSE LET done == [final_length |-> Len(c.out.s),
                              length_change |-> Len(c.out.s) - stats.original_length]
                             @@ cleaned
                 IN [raised |-> "", stats |-> done,
                     ret |-> [text |-> c.out, stats |-> done]]

(***************************************************************************)
(* Requests                                                                *)
(***************************************************************************)
\* '/'
PathRoot == <<"/">>
\* '/health'
PathHealth == <<"/", "h", "e", "a", "l", "t", "h">>
\* '/models'
PathModels == <<"/", "m", "o", "d", "e", "l", "s">>
\* '/humanize'
PathHumanize == <<"/", "h", "u", "m", "a", "n", "i", "z", "e">>
\* '/humanize_and_check'
PathHumanizeAndCheck == <<"/", "h", "u", "m", "a", "n", "i", "z", "e", "_", "a", "n", "d", "_", "c", "h", "e", "c", "k">>
\* '/nothing'
PathUnknown == <<"/", "n", "o", "t", "h", "i", "n", "g">>
\* '/.netlify/functions/api'
NetlifyPrefix == <<"/", ".", "n", "e", "t", "l", "i", "f", "y", "/", "f", "u", "n", "c", "t", "i", "o", "n", "s", "/", "a", "p", "i">>
\* '/api'
ApiPrefix == <<"/", "a", "p", "i">>

\* The paths requests are sent to
Paths ==
    {<<>>, PathRoot, <<"/", "/">>, PathHealth, PathHealth \o <<"/">>, PathModels,
     PathHumanize, PathHumanize \o <<"/">>, PathHumanizeAndCheck, PathUnknown,
     NetlifyPrefix, NetlifyPrefix \o <<"/">>, NetlifyPrefix \o PathHealth,
     NetlifyPrefix \o PathHumanize, ApiPrefix, ApiPrefix \o <<"/">>,
     ApiPrefix \o PathHealth, ApiPrefix \o PathHumanize,
     <<"h", "e", "a", "l", "t", "h">>}

\* 'hello'
TextFive == <<"h", "e", "l", "l", "o">>
\* 'nine char'
TextNine == <<"n", "i", "n", "e", " ", "c", "h", "a", "r">>
\* 'ten chars.'
TextTen == <<"t", "e", "n", " ", "c", "h", "a", "r", "s", ".">>
\* '  hi there  ': 12 characters, 8 once trimmed
TextPadded == <<" ", " ", "h", "i", " ", "t", "h", "e", "r", "e", " ", " ">>
\* 'hello world'
TextPlain == <<"h", "e", "l", "l", "o", " ", "w", "o", "r", "l", "d">>
\* ' hello - world . ' with an em dash: 17 characters, 15 once trimmed
TextPaddedOk == <<" ", "h", "e", "l", "l", "o", " ", "EMDASH", " ", "w", "o", "r", "l", "d", " ", ".", " ">>
\* c repeated n times
RECURSIVE repeat(_, _)
repeat(c, n) ==
    IF n = 0 THEN <<>>
    ELSE IF n % 2 = 0 THEN LET h == repeat(c, n \div 2) IN h \o h
    ELSE <<c>> \o repeat(c, n - 1)

\* MaxTextLen + 1 characters
TextTooLong == repeat("a", MaxTextLen + 1)

RejectedTexts == {<<>>, <<" ", " ">>, TextFive, TextNine, TextPadded, TextTooLong}
AcceptedTexts == {TextTen, TextPlain, TextPaddedOk}

\* What a generation model returns as generated_text
\* 'Hi there'
GenPlain == <<"H", "i", " ", "t", "h", "e", "r", "e">>
\* 'so - yes .' with an em dash
GenDashed == <<"s", "o", " ", "EMDASH", " ", "y", "e", "s", " ", ".">>
\* ': ok then'
GenPrefixed == <<":", " ", "o", "k", " ", "t", "h", "e", "n">>

GeneratedValues ==
    {Str(GenPlain), Str(GenDashed), Str(GenPrefixed), Str(<<":", " ">>),
     Str(<<>>), Str(<<" ", " ">>), None, Num}

\* The outcomes of one call to a generation model
GenerationRemotes ==
    {Remote(k, [has |-> FALSE, val |-> None]) :
        k \in {"raise", "nonlist", "emptylist", "elem", "dict"}}
    \cup {Remote("dict", [has |-> TRUE, val |-> v]) : v \in GeneratedValues}

Scores ==
    {[k |-> "missing", n |-> 0], [k |-> "nan", n |-> 0]}
    \cup {[k |-> "num", n |-> n] : n \in 0..One}

\* The outcomes of one call to the classifier
DetectionRemotes ==
    {Remote(k, [label |-> "", score |-> [k |-> "missing", n |-> 0]]) :
        k \in {"raise", "nonlist", "emptylist", "elem"}}
    \cup {Remote("dict", [label |-> l, score |-> sc]) :
            l \in {"AI", "Real"}, sc \in Scores}

\* The JSON body of a request: absent, malformed, or an object whose keys
\* may be missing.  text.val is a Python value; the flags are "missing",
\* "true" or "false"; threshold.has tells whether detection_threshold is given.
NoBody(kind) ==
    [kind |-> kind, text |-> [has |-> FALSE, val |-> None],
     paraphrasing |-> "missing", enhanced |-> "missing",
     threshold |-> [has |-> FALSE, n |-> 0, d |-> 1]]

JsonBody(text, paraphrasing, enhanced, threshold) ==
    [kind |-> "json", text |-> text, paraphrasing |-> paraphrasing,
     enhanced |-> enhanced, threshold |-> threshold]

NoThreshold == [has |-> FALSE, n |-> 0, d |-> 1]

HumanizeBodies ==
    {NoBody("absent"), NoBody("malformed"),
     JsonBody([has |-> FALSE, val |-> None], "missing", "missing", NoThreshold),
     JsonBody([has |-> TRUE, val |-> None], "missing", "missing", NoThreshold),
     JsonBody([has |-> TRUE, val |-> Num], "missing", "missing", NoThreshold)}
    \cup {JsonBody([has |-> TRUE, val |-> Str(t)], "missing", "missing", NoThreshold) :
            t \in RejectedTexts}
    \cup {JsonBody([has |-> TRUE, val |-> Str(t)], p, e, NoThreshold) :
            t \in AcceptedTexts, p \in {"missing", "true", "false"},
            e \in {"missing", "false"}}

CheckBodies ==
    {NoBody("absent"),
     JsonBody([has |-> TRUE, val |-> Str(TextFive)], "missing", "missing", NoThreshold)}
    \cup {JsonBody([has |-> TRUE, val |-> Str(TextPlain)], "false", "missing", th) :
            th \in {NoThreshold, [has |-> TRUE, n |-> 1, d |-> 2]}}

Event(method, path, body) == [httpMethod |-> method, path |-> path, body |-> body]

\* The events the platform hands to handler or to lambda_handler
Events ==
    {Event(m, [has |-> TRUE, s |-> p], NoBody("absent")) :
        m \in {"GET", "POST", "OPTIONS", "missing"}, p \in Paths}
    \cup {Event(m, [has |-> FALSE, s |-> <<>>], NoBody("absent")) :
            m \in {"GET", "missing"}}
    \cup {Event("POST", [has |-> TRUE, s |-> p], b) :
            p \in {PathHumanize, NetlifyPrefix \o PathHumanize}, b \in HumanizeBodies}
    \cup {Event("POST", [has |-> TRUE, s |-> PathHumanizeAndCheck], b) :
            b \in CheckBodies}

(***************************************************************************)
(* api/index.py: handler, up to the point where a route starts remote work *)
(***************************************************************************)
Reply(status, body) == [act |-> "reply", statusCode |-> status, body |-> body]

\* index.py:155-164: the parsed body; no body and a body json.loads rejects
\* both give {}
parse_body(b) == IF b.kind = "json" THEN b ELSE NoBody("json")

\* index.py:298-300 and 419-422
Options(body) ==
    [use_paraphrasing |-> body.paraphrasing # "false",
     use_enhanced |-> body.enhanced # "false",
     detection_threshold |->
        IF body.threshold.has THEN [n |-> body.threshold.n, d |-> body.threshold.d]
        ELSE [n |-> DefaultThresholdNum, d |-> DefaultThresholdDen]]

\* validate_length with the lower limit off by one
validate_length_off_by_one(text, work, body) ==
    IF Len(text) < MinTextLen - 1
    THEN Reply(400, [error |-> "Text must be at least 10 characters long"])
    ELSE IF Len(text) > MaxTextLen
    THEN Reply(400, [error |-> "Text must be less than 50000 characters"])
    ELSE [act |-> work, text |-> text, options |-> Options(body)]

\* The length checks shared by /humanize and /humanize_and_check
\* (index.py:283-295, 404-416) on the trimmed text, then the route's work
validate_length(text, work, body) ==
    IF Len(text) < MinTextLen
    THEN Reply(400, [error |-> "Text must be at least 10 characters long"])
    ELSE IF Len(text) > MaxTextLen
    THEN Reply(400, [error |-> "Text must be less than 50000 characters"])
    ELSE [act |-> work, text |-> text, options |-> Options(body)]

ModulesMissing ==
    Reply(500, [error |-> "Required modules not available", success |-> FALSE])

\* index.py:483-492
InternalError == Reply(500, [error |-> "Internal server error", success |-> FALSE])

\* index.py:256-308
route_humanize(imports, body) ==
    IF ~imports THEN ModulesMissing
    ELSE IF ~body.text.has THEN Reply(400, [error |-> "Text field is required"])
    \* body.get("text", "").strip() on None or a number raises AttributeError
    ELSE IF body.text.val.k # "str" THEN InternalError
    ELSE IF strip(body.text.val.s) = <<>>
    THEN Reply(400, [error |-> "Text cannot be empty"])
    ELSE validate_length(strip(body.text.val.s), "humanize", body)

\* index.py:384-422
route_humanize_and_check(imports, body) ==
    IF ~imports THEN ModulesMissing
    ELSE IF body.text.has /\ body.text.val.k # "str" THEN InternalError
    ELSE IF ~body.text.has \/ strip(body.text.val.s) = <<>>
    THEN Reply(400, [error |-> "No text provided"])
    ELSE validate_length(strip(body.text.val.s), "check", body)

\* index.py:166: event.get('path', '').rstrip('/')
routed_path(ev) == rstrip_slash(IF ev.path.has THEN ev.path.s ELSE <<>>)

\* handler's routing (index.py:147-254, 475-481): what the request leads to
dispatch(imports, ev) ==
    LET body == parse_body(ev.body)
        path == routed_path(ev)
        method == IF ev.httpMethod = "missing" THEN "GET" ELSE ev.httpMethod
    IN IF ev.httpMethod = "OPTIONS" THEN Reply(200, [raw |-> ""])
       ELSE IF path = PathRoot /\ method = "GET"
       THEN IF ~imports
            THEN Reply(500, [status |-> "error",
                             message |-> "Required modules not available"])
            ELSE Reply(200, [status |-> "healthy", route |-> "root"])
       ELSE IF path = PathHealth /\ method = "GET"
       THEN IF ~imports
            THEN Reply(500, [status |-> "error",
                             message |-> "Required modules not available"])
            ELSE Reply(200, [status |-> "healthy", route |-> "health"])
       ELSE IF path = PathModels /\ method = "GET"
       THEN IF ~imports
            THEN Reply(500, [error |-> "Required modules not available"])
            ELSE Reply(200, [current_model |-> get_current_model])
       ELSE IF path = PathHumanize /\ method = "POST"
       THEN route_humanize(imports, body)
       ELSE IF path = PathHumanizeAndCheck /\ method = "POST"
       THEN route_humanize_and_check(imports, body)
       \* /detect (index.py:323-382) runs AITextDetector.detect_ensemble of the
       \* detector module, which is not among the sources: no event of Events
       \* is sent to it
       ELSE Reply(404, [error |-> "Endpoint not found"])

\* lambda_handler's path rewriting (netlify/functions/api.py:16-36)
lambda_event(event) ==
    LET p0 == IF event.path.has THEN event.path.s ELSE PathRoot
        p1 == IF startswith(p0, NetlifyPrefix) THEN replace(p0, NetlifyPrefix, <<>>)
              ELSE p0
        p2 == IF startswith(p1, ApiPrefix) THEN replace(p1, ApiPrefix, <<>>) ELSE p1
        p3 == IF startswith(p2, <<"/">>) THEN p2 ELSE <<"/">> \o p2
    IN [httpMethod |-> IF event.httpMethod = "missing" THEN "GET"
                       ELSE event.httpMethod,
        path |-> [has |-> TRUE, s |-> p3],
        body |-> event.body]

\* The 200 response of /humanize (index.py:310-321)
humanize_response(text, ret) ==
    [statusCode |-> 200,
     body |-> [humanized_text |-> IF strip(ret.text.s) = <<>> THEN text
                                  ELSE ret.text.s,
               success |-> TRUE,
               statistics |-> ret.stats]]

\* The 200 response of /humanize_and_check (index.py:441-473);
\* percentage_improvement, a float quotient, is left out
check_response(text, ret, threshold, od, oi, hd, hi) ==
    [statusCode |-> 200,
     body |-> [original_text |-> text,
               humanized_text |-> ret.text.s,
               humanization_stats |-> ret.stats,
               original_detection |->
                   [is_ai_generated |-> oi.is_ai,
                    ai_probability |-> od.ensemble_ai_probability,
                    prediction |-> od.prediction,
                    confidence |-> oi.confidence],
               humanized_detection |->
                   [is_ai_generated |-> hi.is_ai,
                    ai_probability |-> hd.ensemble_ai_probability,
                    prediction |-> hd.prediction,
                    confidence |-> hi.confidence],
               improvement |->
                   [detection_improved |-> oi.is_ai /\ ~hi.is_ai,
                    ai_probability_reduction |->
                        od.ensemble_ai_probability - hd.ensemble_ai_probability],
               threshold_used |-> threshold,
               success |-> TRUE]]

(***************************************************************************)
(* State                                                                   *)
(***************************************************************************)
VARIABLES
    IMPORTS_AVAILABLE,   \* index.py:24/27, fixed when the module is loaded
    HF_API_TOKEN,        \* api_external.py:13: TRUE when the token is set
    pc,                  \* where the request is
    via,                 \* "handler" or "lambda_handler": who got the event
    event,               \* the event handler works on
    text,                \* the trimmed request text
    options,             \* use_paraphrasing, use_enhanced, detection_threshold
    stats,               \* humanize_text's stats dict
    current_text,        \* humanize_text's current_text
    paraphrase_result,   \* what paraphrase_text returned
    paraphrase_remote,   \* what the remote model answered to paraphrase_text
    rewrite_input,       \* the text rewrite_text was called with
    rewrite_result,      \* what rewrite_text returned
    rewrite_remote,      \* what the remote model answered to rewrite_text
    clean_input,         \* the value clean_final_text was called with
    raised,              \* the exception humanize_text's try block raised, or ""
    ret,                 \* what humanize_text returned
    original_detection,  \* detect_ai_text(text), index.py:425
    original_is_ai,      \* is_ai_generated(text, threshold), index.py:426
    humanized_detection, \* detect_ai_text(humanized_text), index.py:437
    humanized_is_ai,     \* is_ai_generated(humanized_text, threshold), index.py:438
    detect_remote,       \* the classifier's answer to handler's latest own call
                         \* of detect_ai_text, until handler's next step
    network_calls,       \* the requests.post calls made for this request
    response,            \* the response to the request
    cleaning             \* clean_final_text applied on its own: the text, the
                         \* result of one application and of a second one

config == <<IMPORTS_AVAILABLE, HF_API_TOKEN>>
request == <<via, event, text, options>>
pipeline == <<stats, current_text, paraphrase_result, rewrite_input, rewrite_result,
              clean_input, raised, ret, paraphrase_remote, rewrite_remote>>
detection == <<original_detection, original_is_ai, humanized_detection,
               humanized_is_ai, detect_remote>>
vars == <<config, request, pipeline, detection, pc, network_calls, response,
          cleaning>>

\* Values of the variables nothing has been assigned to yet
NotRun == [out |-> None, err |-> "not run", called |-> FALSE]
Unset == [k |-> "unset", s |-> <<>>]
NoStats == [processing_steps |-> <<>>]
NoRet == [text |-> Unset, stats |-> NoStats]
NoDetection == NeutralDetection("not run", "")
NoVerdict == [is_ai |-> FALSE, confidence |-> 0, run |-> FALSE]
NoResponse == [statusCode |-> 0, body |-> [raw |-> ""]]
NoRemote == Remote("none", [label |-> "", score |-> [k |-> "missing", n |-> 0]])
NoGeneration == Remote("none", [has |-> FALSE, val |-> None])
NoCleaning == [stage |-> "none", text |-> <<>>, once |-> <<>>, twice |-> <<>>]
NoEvent == Event("missing", [has |-> FALSE, s |-> <<>>], NoBody("absent"))

\* No request has arrived
Idle ==
    /\ IMPORTS_AVAILABLE \in BOOLEAN
    /\ HF_API_TOKEN \in BOOLEAN
    /\ pc = "idle"
    /\ via = "nobody"
    /\ event = NoEvent
    /\ text = <<>>
    /\ options = Options(NoBody("json"))
    /\ stats = NoStats
    /\ current_text = <<>>
    /\ paraphrase_result = NotRun
    /\ paraphrase_remote = NoGeneration
    /\ rewrite_input = Unset
    /\ rewrite_result = NotRun
    /\ rewrite_remote = NoGeneration
    /\ clean_input = Unset
    /\ raised = ""
    /\ ret = NoRet
    /\ original_detection = NoDetection
    /\ original_is_ai = NoVerdict
    /\ humanized_detection = NoDetection
    /\ humanized_is_ai = NoVerdict
    /\ detect_remote = NoRemote
    /\ network_calls = 0
    /\ response = NoResponse

Init ==
    /\ Idle
    /\ cleaning = NoCleaning

(***************************************************************************)
(* Actions                                                                 *)
(***************************************************************************)
\* humanize_text up to its first remote call (index.py:69-81), on the text t
\* with the options o.  Every caller has tested IMPORTS_AVAILABLE, so the
\* guard of index.py:66 is passed.
humanize_begin(t, o) ==
    /\ stats' = InitialStats(t, o.use_enhanced)
    /\ current_text' = t
    /\ pc' = IF o.use_paraphrasing THEN "paraphrase" ELSE "rewrite"
    /\ UNCHANGED <<paraphrase_result, rewrite_input, rewrite_result, clean_input,
                   raised, ret, paraphrase_remote, rewrite_remote>>

\* handler on the event ev, as far as the first remote call
handler(ev) ==
    LET d == dispatch(IMPORTS_AVAILABLE, ev)
    IN /\ event' = ev
       /\ UNCHANGED <<config, cleaning, detection, network_calls>>
       /\ IF d.act = "reply"
          THEN /\ response' = [statusCode |-> d.statusCode, body |-> d.body]
               /\ pc' = "done"
               /\ UNCHANGED <<text, options, pipeline>>
          ELSE /\ text' = d.text
               /\ options' = d.options
               /\ UNCHANGED response
               /\ IF d.act = "humanize"
                  THEN humanize_begin(d.text, d.options)
                  ELSE pc' = "detect_original" /\ UNCHANGED pipeline

\* The platform calls handler directly
Handler(e) ==
    /\ pc = "idle"
    /\ via' = "handler"
    /\ handler(e)

\* The platform calls the Netlify wrapper, which calls handler and passes its
\* status code and body on (netlify/functions/api.py:38-54)
LambdaHandler(e) ==
    /\ pc = "idle"
    /\ via' = "lambda_handler"
    /\ handler(lambda_event(e))

\* humanize_text has returned r: /humanize answers, /humanize_and_check goes on
\* to its second detection (index.py:303-321, 429-437)
humanize_return(r) ==
    /\ ret' = r
    /\ IF routed_path(event) = PathHumanize
       THEN /\ response' = humanize_response(text, r)
            /\ pc' = "done"
       ELSE /\ pc' = "detect_humanized"
            /\ UNCHANGED response

\* Steps 2 and 3 of humanize_text on the text t with the stats st
\* (index.py:98-125), rewrite_text's remote call answering with remote
rewrite_and_clean(t, st, remote) ==
    LET r == rewrite_text(t, options.use_enhanced, HF_API_TOKEN, remote)
        w == rewrite_step(st, t, r)
        c == clean_step(text, w.stats, w.final_text)
    IN /\ rewrite_input' = Str(t)
       /\ rewrite_result' = r
       /\ rewrite_remote' = IF r.called THEN remote ELSE NoGeneration
       /\ clean_input' = w.final_text
       /\ stats' = c.stats
       /\ raised' = c.raised
       /\ network_calls' = network_calls + (IF r.called THEN 1 ELSE 0)
       /\ humanize_return(c.ret)

\* Step 1 of humanize_text (index.py:81-96); when it raises, the except clause
\* returns, otherwise the pipeline waits for rewrite_text's remote call
Paraphrase(remote) ==
    /\ pc = "paraphrase"
    /\ LET p == paraphrase_text(current_text, HF_API_TOKEN, remote)
           s == paraphrase_step(stats, current_text, p)
       IN /\ paraphrase_result' = p
          /\ paraphrase_remote' = IF p.called THEN remote ELSE NoGeneration
          /\ network_calls' = network_calls + (IF p.called THEN 1 ELSE 0)
          /\ stats' = s.stats
          /\ current_text' = s.current_text
          /\ raised' = s.raised
          /\ IF s.raised # ""
             THEN humanize_return(pipeline_error(text, s.stats, s.raised))
             ELSE pc' = "rewrite" /\ UNCHANGED <<ret, response>>
    /\ UNCHANGED <<config, cleaning, request, detection, rewrite_input, rewrite_result,
                   rewrite_remote,
                   clean_input>>

Rewrite(remote) ==
    /\ pc = "rewrite"
    /\ rewrite_and_clean(current_text, stats, remote)
    /\ UNCHANGED <<config, cleaning, request, detection, current_text,
                   paraphrase_result, paraphrase_remote>>

\* index.py:425
DetectOriginal(remote) ==
    /\ pc = "detect_original"
    /\ original_detection' = detect_ai_text(HF_API_TOKEN, remote)
    /\ detect_remote' = remote
    /\ network_calls' = network_calls
                        + (IF call_hf_api(HF_API_TOKEN, remote).called THEN 1 ELSE 0)
    /\ pc' = "is_ai_original"
    /\ UNCHANGED <<config, cleaning, request, pipeline, original_is_ai, humanized_detection,
                   humanized_is_ai, response>>

\* index.py:426-434
IsAiOriginal(remote) ==
    /\ pc = "is_ai_original"
    /\ original_is_ai' = is_ai_generated(options.detection_threshold,
                                         HF_API_TOKEN, remote) @@ [run |-> TRUE]
    /\ detect_remote' = NoRemote
    /\ network_calls' = network_calls
                        + (IF call_hf_api(HF_API_TOKEN, remote).called THEN 1 ELSE 0)
    /\ humanize_begin(text, options)
    /\ UNCHANGED <<config, cleaning, request, original_detection, humanized_detection,
                   humanized_is_ai, response>>

\* index.py:437
DetectHumanized(remote) ==
    /\ pc = "detect_humanized"
    /\ humanized_detection' = detect_ai_text(HF_API_TOKEN, remote)
    /\ detect_remote' = remote
    /\ network_calls' = network_calls
                        + (IF call_hf_api(HF_API_TOKEN, remote).called THEN 1 ELSE 0)
    /\ pc' = "is_ai_humanized"
    /\ UNCHANGED <<config, cleaning, request, pipeline, original_detection, original_is_ai,
                   humanized_is_ai, response>>

\* index.py:438-473
IsAiHumanized(remote) ==
    /\ pc = "is_ai_humanized"
    /\ LET hi == is_ai_generated(options.detection_threshold, HF_API_TOKEN, remote)
                 @@ [run |-> TRUE]
       IN /\ humanized_is_ai' = hi
          /\ detect_remote' = NoRemote
          /\ response' = check_response(text, ret, options.detection_threshold,
                                        original_detection, original_is_ai,
                                        humanized_detection, hi)
    /\ network_calls' = network_calls
                        + (IF call_hf_api(HF_API_TOKEN, remote).called THEN 1 ELSE 0)
    /\ pc' = "done"
    /\ UNCHANGED <<config, cleaning, request, pipeline, original_detection, original_is_ai,
                   humanized_detection>>

Next ==
    \/ \E e \in Events : Handler(e)
    \/ \E e \in Events : LambdaHandler(e)
    \/ \E remote \in GenerationRemotes : Paraphrase(remote)
    \/ \E remote \in GenerationRemotes : Rewrite(remote)
    \/ \E remote \in DetectionRemotes : DetectOriginal(remote)
    \/ \E remote \in DetectionRemotes : IsAiOriginal(remote)
    \/ \E remote \in DetectionRemotes : DetectHumanized(remote)
    \/ \E remote \in DetectionRemotes : IsAiHumanized(remote)

Spec == Init /\ [][Next]_vars

(***************************************************************************)
(* clean_final_text on its own, on every text of at most CleanMaxLen       *)
(* characters over an alphabet with the em dash, the space, the comma, the *)
(* period and a letter                                                     *)
(***************************************************************************)
CleanAlphabet == {EmDash, " ", ",", ".", "a"}

CleanTexts ==
    UNION {[1..n -> CleanAlphabet] : n \in 0..CleanMaxLen}

InitClean ==
    /\ Idle
    /\ IMPORTS_AVAILABLE
    /\ HF_API_TOKEN
    /\ \E t \in CleanTexts :
          cleaning = [stage |-> "text", text |-> t, once |-> <<>>, twice |-> <<>>]

\* clean_final_text(text)
CleanOnce ==
    /\ cleaning.stage = "text"
    /\ cleaning' = [cleaning EXCEPT
                       !.stage = "once",
                       !.once = clean_final_text(Str(cleaning.text)).out.s]
    /\ UNCHANGED <<config, request, pipeline, detection, pc, network_calls,
                   response>>

\* clean_final_text(clean_final_text(text))
CleanTwice ==
    /\ cleaning.stage = "once"
    /\ cleaning' = [cleaning EXCEPT
                       !.stage = "twice",
                       !.twice = clean_final_text(Str(cleaning.once)).out.s]
    /\ UNCHANGED <<config, request, pipeline, detection, pc, network_calls,
                   response>>

NextClean ==
    \/ CleanOnce
    \/ CleanTwice

SpecClean == InitClean /\ [][NextClean]_vars

(***************************************************************************)
(* Properties                                                              *)
(***************************************************************************)
\* humanize_text has returned
Returned == ret.text.k # "unset"

ParaphraseRan == paraphrase_result.err # "not run"
RewriteRan == rewrite_result.err # "not run"

\* A step's output that is a str of no characters or of spaces only
Blank(v) == v.k = "str" /\ strip(v.s) = <<>>

\* paraphrase_text reported an error, or returned nothing usable
ParaphraseFailed ==
    /\ ParaphraseRan
    /\ \/ paraphrase_result.err # ""
       \/ paraphrase_result.out.k = "none"
       \/ Blank(paraphrase_result.out)

\* s has the element a somewhere before an element b
InOrder(s, a, b) == \E i, j \in 1..Len(s) : i < j /\ s[i] = a /\ s[j] = b

\* The request was routed to POST /humanize
ToHumanize ==
    /\ pc # "idle"
    /\ event.httpMethod = "POST"
    /\ routed_path(event) = PathHumanize

\* C1: whenever the try block of humanize_text raises, humanize_text returns
\* the original text, and stats with an error key whose processing_steps are
\* the steps recorded so far followed by "error".
C1_ErrorReturnsOriginal ==
    raised # "" =>
        /\ Returned
        /\ ret.text = Str(text)
        /\ "error" \in DOMAIN ret.stats
        /\ ret.stats.error = raised
        /\ ret.stats.processing_steps = Append(stats.processing_steps, "error")
        /\ \A i \in 1..Len(stats.processing_steps) :
              stats.processing_steps[i] # "error"

\* C1 witness: the cleaning step raised after a successful paraphrase and a
\* rewrite that returned null
C1_Witness ==
    /\ raised = "TypeError"
    /\ Returned
    /\ ret.stats.processing_steps
         = <<"paraphrasing", "rewriting", "text_cleaning", "error">>
    /\ Str(current_text) # Str(text)

\* C2: with paraphrasing on, when the paraphrase step fails and the rewrite
\* step succeeds, rewrite_text is called with the original text, and the
\* returned stats have "paraphrasing_failed" then "rewriting" as their first
\* two steps and paraphrasing_used false.
C2_SoftParaphraseFailure ==
    (ParaphraseFailed /\ RewriteRan /\ rewrite_result.err = "") =>
        /\ options.use_paraphrasing
        /\ rewrite_input = Str(text)
        /\ Returned
        /\ Len(ret.stats.processing_steps) >= 2
        /\ ret.stats.processing_steps[1] = "paraphrasing_failed"
        /\ ret.stats.processing_steps[2] = "rewriting"
        /\ InOrder(ret.stats.processing_steps, "paraphrasing_failed", "rewriting")
        /\ ret.stats.paraphrasing_used = FALSE

\* C2 witness: the paraphraser answered with spaces only, the rewriter with a
\* text, and /humanize answered 200
C2_Witness ==
    /\ ParaphraseRan
    /\ paraphrase_result.err = ""
    /\ Blank(paraphrase_result.out)
    /\ rewrite_result.err = ""
    /\ rewrite_result.out = Str(GenPlain)
    /\ response.statusCode = 200
    /\ ToHumanize

\* C3: when rewrite_text reports an error, clean_final_text is called with the
\* text rewrite_text was called with, which is the working text (the
\* paraphrase when there is one), and the step recorded is "rewriting_failed",
\* never "rewriting".
C3_RewriteFailureKeepsWorkingText ==
    (RewriteRan /\ rewrite_result.err # "") =>
        /\ clean_input = rewrite_input
        /\ rewrite_input = Str(current_text)
        /\ Returned
        /\ ret.stats.processing_steps
             = Append(Append(IF ParaphraseRan
                             THEN <<IF stats.paraphrasing_used THEN "paraphrasing"
                                    ELSE "paraphrasing_failed">>
                             ELSE <<>>,
                             "rewriting_failed"), "text_cleaning")
        /\ stats.paraphrasing_used =>
              /\ paraphrase_result.out.k = "str"
              /\ current_text = IF startswith(paraphrase_result.out.s, <<":", " ">>)
                                THEN SubSeq(paraphrase_result.out.s, 3,
                                            Len(paraphrase_result.out.s))
                                ELSE paraphrase_result.out.s

\* C3 witness: the paraphrase was adopted, the rewrite failed, and the
\* normalizer got the paraphrase, not the original
C3_Witness ==
    /\ RewriteRan
    /\ rewrite_result.err = "HTTPError"
    /\ stats.paraphrasing_used
    /\ clean_input = Str(GenDashed)
    /\ clean_input # Str(text)
    /\ Returned

\* C4: every 200 response of POST /humanize has statistics.final_length equal
\* to the length of humanized_text and length_change equal to final_length
\* minus original_length.
C4_LengthsMatchResponse ==
    (ToHumanize /\ pc = "done" /\ response.statusCode = 200) =>
        /\ "final_length" \in DOMAIN response.body.statistics
        /\ response.body.statistics.final_length = Len(response.body.humanized_text)
        /\ response.body.statistics.length_change
             = response.body.statistics.final_length
               - response.body.statistics.original_length

\* C5: for a non-empty input, when paraphrase_text or rewrite_text returns an
\* empty or whitespace-only text, the step is recorded as failed and the
\* working text stays what it was.
C5_BlankOutputIsFailure ==
    /\ (ParaphraseRan /\ paraphrase_result.err = "" /\ Blank(paraphrase_result.out)
        /\ pc # "paraphrase") =>
          /\ stats.processing_steps[1] = "paraphrasing_failed"
          /\ current_text = text
    /\ (RewriteRan /\ rewrite_result.err = "" /\ Blank(rewrite_result.out)
        /\ rewrite_input # Str(<<>>)) =>
          /\ \E i \in 1..Len(stats.processing_steps) :
                stats.processing_steps[i] = "rewriting_failed"
          /\ clean_input = rewrite_input

\* C6: without the credential no network call is made, and POST /humanize is
\* answered with a 5xx status, not with 200 and "_failed" steps.
C6_MissingCredentialIs500 ==
    (~HF_API_TOKEN /\ ToHumanize /\ pc = "done" /\ stats # NoStats) =>
        /\ network_calls = 0
        /\ response.statusCode >= 500

\* The detection results handler holds
Detections ==
    (IF original_detection.prediction # "not run" THEN {original_detection} ELSE {})
    \cup (IF humanized_detection.prediction # "not run" THEN {humanized_detection}
          ELSE {})

LatestDetection ==
    IF pc = "is_ai_original" THEN original_detection ELSE humanized_detection

DetectionHeld == pc \in {"is_ai_original", "is_ai_humanized"}

IsNeutral(d) ==
    /\ d.ensemble_ai_probability = Half
    /\ d.ensemble_human_probability = Half
    /\ d.prediction \in {"Detection failed", "Uncertain"}
    /\ d.confidence = 0
    /\ d.models_used = <<>>

\* The model did not respond: no credential, the call raised, or the response
\* was no list or an empty one
NoModelResponded ==
    ~HF_API_TOKEN \/ detect_remote.k \in {"raise", "nonlist", "emptylist"}

\* The response carried a score detect_ai_text could use
UsableScore ==
    /\ HF_API_TOKEN
    /\ detect_remote.k = "dict"
    /\ detect_remote.v.score.k = "num"

\* C8 as stated: the neutral result when no model responds, and a model in
\* models_used only when it produced a usable score.
C8_Original ==
    DetectionHeld =>
        /\ NoModelResponded => IsNeutral(LatestDetection)
        /\ LatestDetection.models_used # <<>> => UsableScore

\* C8 as amended: the neutral result when no model responds; a model is in
\* models_used only when the call returned a non-empty list, and when that
\* response carried no score (its first element is no object, or has no score
\* key) the model is listed all the same, with the default probability 0.5.
C8_NeutralWhenNoResponse ==
    DetectionHeld =>
        /\ NoModelResponded => IsNeutral(LatestDetection)
        /\ LatestDetection.models_used # <<>> =>
              /\ HF_API_TOKEN
              /\ detect_remote.k \in {"elem", "dict"}
              /\ LatestDetection.models_used = <<DetectorModel>>
              /\ ~UsableScore => LatestDetection.ensemble_ai_probability = Half
        /\ LatestDetection.models_used = <<>> => IsNeutral(LatestDetection)

\* C8 witness: the call raised and the result is the neutral one
C8_Witness ==
    /\ pc = "is_ai_humanized"
    /\ HF_API_TOKEN
    /\ detect_remote.k = "raise"
    /\ humanized_detection.prediction = "Detection failed"
    /\ humanized_detection.models_used = <<>>
    /\ humanized_detection.error = "HTTPError"

\* The text field of the request is missing, or a str that once trimmed is
\* empty, shorter than MinTextLen or longer than MaxTextLen
BadText ==
    LET b == parse_body(event.body)
    IN \/ ~b.text.has
       \/ /\ b.text.val.k = "str"
          /\ \/ Len(strip(b.text.val.s)) < MinTextLen
             \/ Len(strip(b.text.val.s)) > MaxTextLen

\* humanize_text was never entered and no remote call was made
PipelineUntouched ==
    /\ stats = NoStats
    /\ ~Returned
    /\ ~ParaphraseRan
    /\ ~RewriteRan
    /\ network_calls = 0

\* C9 as stated: a POST /humanize with a missing, empty, too short or too long
\* text is answered 400 and never reaches the pipeline.
C9_Original ==
    (ToHumanize /\ BadText) =>
        /\ pc = "done"
        /\ response.statusCode = 400
        /\ PipelineUntouched

\* C9 as amended: when the backing modules are available, such a request is
\* answered 400; when they are not, it is answered 500; in both cases the
\* pipeline is never reached.
C9_BadTextRejected ==
    (ToHumanize /\ BadText) =>
        /\ pc = "done"
        /\ response.statusCode = IF IMPORTS_AVAILABLE THEN 400 ELSE 500
        /\ PipelineUntouched

\* C9 witness: a text of 5 characters is answered 400
C9_Witness ==
    /\ ToHumanize
    /\ IMPORTS_AVAILABLE
    /\ event.body.kind = "json"
    /\ event.body.text.val = Str(TextFive)
    /\ response.statusCode = 400
    /\ PipelineUntouched

\* C10: a GET of the path "/" is answered by the health route, 200 when the
\* modules are available and 500 when not, never 404, through handler and
\* through lambda_handler alike.
C10_RootIsHealth ==
    (pc = "done" /\ event.httpMethod = "GET" /\ event.path.has
     /\ event.path.s = PathRoot) =>
        /\ response.statusCode = IF IMPORTS_AVAILABLE THEN 200 ELSE 500
        /\ response.statusCode # 404

\* C11: clean_final_text is idempotent: applied to its own result it returns
\* that result.
C11_CleanIdempotent ==
    cleaning.stage = "twice" => cleaning.twice = cleaning.once

\* C11 witness: a text with an em dash and spaces before a period, which one
\* application changes and a second one leaves alone
C11_Witness ==
    /\ cleaning.stage = "twice"
    /\ cleaning.text = <<EmDash, " ", " ", ".">>
    /\ cleaning.once = <<",", ".">>
    /\ cleaning.twice = <<",", ".">>

\* the number of places where pat occurs in s
RECURSIVE Count(_, _)
Count(s, pat) ==
    IF Len(s) < Len(pat) THEN 0
    ELSE (IF startswith(s, pat) THEN 1 ELSE 0) + Count(Tail(s), pat)

\* the number of commas of s followed by one or more spaces and then by a
\* comma or a period
RECURSIVE CommasBeforeDroppedSpaces(_)
CommasBeforeDroppedSpaces(s) ==
    IF s = <<>> THEN 0
    ELSE (IF /\ Head(s) = ","
             /\ \E j \in 3..Len(s) :
                   /\ s[j] \in {",", "."}
                   /\ \A i \in 2..(j - 1) : s[i] = " "
          THEN 1 ELSE 0) + CommasBeforeDroppedSpaces(Tail(s))

CleanedWithDash == cleaning.stage # "text" /\ Count(cleaning.text, <<EmDash>>) > 0

\* C12 as stated: for a text with an em dash, the result has no em dash and
\* exactly one more ", " than the text for each em dash of the text.
C12_Original ==
    CleanedWithDash =>
        /\ Count(cleaning.once, <<EmDash>>) = 0
        /\ Count(cleaning.once, <<",", " ">>)
             = Count(cleaning.text, <<",", " ">>) + Count(cleaning.text, <<EmDash>>)

\* C12 as amended: for a text with an em dash, the result has no em dash, and
\* its number of ", " is the text's plus one for each em dash, less one for
\* each comma (of the text, or put in place of an em dash) that is followed by
\* one or more spaces and then a comma or a period, those spaces being removed
\* by the second rule; so never more than one more for each em dash.
C12_DashesBecomeCommaSpace ==
    CleanedWithDash =>
        /\ Count(cleaning.once, <<EmDash>>) = 0
        /\ Count(cleaning.once, <<",", " ">>)
             = Count(cleaning.text, <<",", " ">>) + Count(cleaning.text, <<EmDash>>)
               - CommasBeforeDroppedSpaces(replace(cleaning.text, <<EmDash>>,
                                                   <<",", " ">>))
        /\ Count(cleaning.once, <<",", " ">>)
             <= Count(cleaning.text, <<",", " ">>) + Count(cleaning.text, <<EmDash>>)

\* C12 witness: two em dashes, one followed by a period: one ", " more, not two
C12_Witness ==
    /\ cleaning.stage = "once"
    /\ cleaning.text = <<EmDash, "a", EmDash, ".">>
    /\ cleaning.once = <<",", " ", "a", ",", ".">>

\* The remote call succeeded (a response was parsed) but the list is empty or
\* its first element has no generated_text
NoTextInResponse(remote) ==
    \/ remote.k \in {"emptylist", "elem"}
    \/ remote.k = "dict" /\ ~remote.v.has

\* The first element of the response is an object with generated_text
TextInResponse(remote) == remote.k = "dict" /\ remote.v.has

\* C13: when the remote call succeeds but the list is empty or its first
\* element has no generated_text, paraphrase_text and rewrite_text return a
\* non-empty error and humanize_text records the step as "_failed"; they
\* return no error only when the first element has generated_text.
C13_MissingTextIsFailure ==
    /\ (ParaphraseRan /\ NoTextInResponse(paraphrase_remote)) =>
          /\ paraphrase_result.err # ""
          /\ stats.processing_steps[1] = "paraphrasing_failed"
    /\ (RewriteRan /\ NoTextInResponse(rewrite_remote)) =>
          /\ rewrite_result.err # ""
          /\ \E i \in 1..Len(stats.processing_steps) :
                stats.processing_steps[i] = "rewriting_failed"
    /\ (ParaphraseRan /\ paraphrase_result.err = "") =>
          TextInResponse(paraphrase_remote)
    /\ (RewriteRan /\ rewrite_result.err = "") => TextInResponse(rewrite_remote)

\* POST /humanize_and_check was answered 200
CheckAnswered ==
    /\ pc = "done"
    /\ event.httpMethod = "POST"
    /\ routed_path(event) = PathHumanizeAndCheck
    /\ response.statusCode = 200

\* C14: in every 200 response of POST /humanize_and_check, the flag of each
\* detection block is its own probability compared with threshold_used.
C14_DetectionBlocksConsistent ==
    CheckAnswered =>
        /\ response.body.original_detection.is_ai_generated
             = above_threshold(response.body.original_detection.ai_probability,
                               response.body.threshold_used)
        /\ response.body.humanized_detection.is_ai_generated
             = above_threshold(response.body.humanized_detection.ai_probability,
                               response.body.threshold_used)

====
